---- MODULE Spec2Model ----
(***************************************************************************)
(* Model of the "common teammate" guessing game:                           *)
(*   src/basketball_teammate_game.py  (player mode + computer mode)        *)
(*   src/nna_guess_teammate.py        (the older player-mode-only app)     *)
(*                                                                         *)
(* A Python str is modelled as a sequence of characters.  A character is a *)
(* one-token TLA+ string: an ASCII character stands for itself, "c'" is    *)
(* the precomposed U+0107 (c with acute), "C'" is U+0106 and "'" is the    *)
(* combining acute accent U+0301.                                          *)
(***************************************************************************)
EXTENDS Integers, Sequences, FiniteSets, TLC

VARIABLES
    \* ---- fetch_teammates (both files), run on one provider response
    html, f_min_games, teammates, nna_teammates, f_pc,
    \* ---- the intersection step on three rosters
    t1, t2, t3, common, pairwise, i_pc,
    \* ---- the guess check of each app on one answer set and one guess
    g_common, g_answer, guess, verdict, g_pc,
    \* ---- generate_computer_question: parameters, directory, locals, result
    all_players, max_trials, min_games, trials, pc, target_player,
    target_info, target_teammates, clue_players, clue_search_results,
    clue_html, clue_teammates_lists, result,
    \* ---- player mode: which app runs, st.session_state, the last message
    app, session_state, shown,
    \* ---- search_player run on one provider response
    s_resp, s_results, s_pc,
    \* ---- normalize_name run on one name, on its own result and on a variant
    n_name, n_variant, normalized, n_pc,
    \* ---- computer mode: the radio, the threshold of line 445, the session
    \* ---- keys comp_question / comp_start, the last message, the script position
    difficulty, comp_min_games, comp_state, comp_shown, c_pc

parseVars == <<html, f_min_games, teammates, nna_teammates, f_pc>>
intersectVars == <<t1, t2, t3, common, pairwise, i_pc>>
guessVars == <<g_common, g_answer, guess, verdict, g_pc>>
genParams == <<all_players, max_trials, min_games>>
genLocals == <<target_player, target_info, target_teammates, clue_players,
               clue_search_results, clue_html, clue_teammates_lists>>
genVars == <<genParams, trials, pc, genLocals, result>>
sessionVars == <<app, session_state, shown>>
searchVars == <<s_resp, s_results, s_pc>>
normVars == <<n_name, n_variant, normalized, n_pc>>
compVars == <<difficulty, comp_min_games, comp_state, comp_shown, c_pc>>
extVars == <<searchVars, normVars, compVars>>
vars == <<parseVars, intersectVars, guessVars, genVars, sessionVars, extVars>>

(***************************************************************************)
(* Characters and the str methods the code calls.                          *)
(***************************************************************************)
UpperChars == <<"A","B","C","D","E","F","G","H","I","J","K","L","M",
                "N","O","P","Q","R","S","T","U","V","W","X","Y","Z","C'">>
LowerChars == <<"a","b","c","d","e","f","g","h","i","j","k","l","m",
                "n","o","p","q","r","s","t","u","v","w","x","y","z","c'">>
Digits == <<"0","1","2","3","4","5","6","7","8","9">>

\* str.lower() on one character
LowerChar(c) ==
    IF \E i \in DOMAIN UpperChars : UpperChars[i] = c
    THEN LowerChars[CHOOSE i \in DOMAIN UpperChars : UpperChars[i] = c]
    ELSE c

\* str.lower()
Lower(s) == [i \in DOMAIN s |-> LowerChar(s[i])]

IsSpace(c) == c = " "
IsDigit(c) == \E i \in DOMAIN Digits : Digits[i] = c

\* str.strip(): drop leading and trailing whitespace
Strip(s) ==
    LET keep == {i \in DOMAIN s : ~IsSpace(s[i])}
    IN  IF keep = {} THEN <<>>
        ELSE LET lo == CHOOSE i \in keep : \A j \in keep : i <= j
                 hi == CHOOSE i \in keep : \A j \in keep : j <= i
             IN  SubSeq(s, lo, hi)

\* str.isdigit(): non-empty and every character a digit
IsDigitStr(s) == Len(s) > 0 /\ \A i \in DOMAIN s : IsDigit(s[i])

\* str.replace("*", "") / Series.str.replace(r"\*", "", regex=True)
NotStar(c) == c # "*"
RemoveStars(s) == SelectSeq(s, NotStar)

\* sub in s, for two strs
Contains(sub, s) ==
    \E i \in 1..(Len(s) - Len(sub) + 1) : SubSeq(s, i, i + Len(sub) - 1) = sub

\* ' '.join(levels)
RECURSIVE JoinSpace(_)
JoinSpace(levels) ==
    IF Len(levels) = 0 THEN <<>>
    ELSE IF Len(levels) = 1 THEN levels[1]
    ELSE levels[1] \o <<" ">> \o JoinSpace(Tail(levels))

\* unicodedata.normalize('NFKD', ch): canonical decomposition of one character
NFKDChar(c) ==
    IF c = "c'" THEN <<"c", "'">>
    ELSE IF c = "C'" THEN <<"C", "'">>
    ELSE <<c>>

RECURSIVE NFKD(_)
NFKD(s) == IF s = <<>> THEN <<>> ELSE NFKDChar(Head(s)) \o NFKD(Tail(s))

\* unicodedata.combining(ch) != 0
Combining(c) == c = "'"
NotCombining(c) == ~Combining(c)

normalize_nameMutant(name) == Strip(Lower(SelectSeq(name, NotCombining)))
normalize_name(name) == Strip(Lower(SelectSeq(NFKD(name), NotCombining)))

(***************************************************************************)
(* Names used as test data.                                                *)
(***************************************************************************)
Nurkic       == <<"N","u","r","k","i","c">>
NurkicAccent == <<"N","u","r","k","i","c'">>
Love         == <<"L","o","v","e">>
Irving       == <<"I","r","v","i","n","g">>
James        == <<"J","a","m","e","s">>
Teammate     == <<"T","e","a","m","m","a","t","e">>
\* the literal 'teammate' the intersection is filtered against
SentinelLower == <<"t","e","a","m","m","a","t","e">>

(***************************************************************************)
(* fetch_teammates: the provider's answer and the table pandas reads.      *)
(* A cell is [na |-> TRUE] (NaN) or [na |-> FALSE, s |-> str].             *)
(***************************************************************************)
NaN == [na |-> TRUE, s |-> <<>>]
Cell(str) == [na |-> FALSE, s |-> str]

\* pd.to_numeric(x, errors="coerce"): a number, or NaN for what does not parse
RECURSIVE DigitsValue(_)
DigitsValue(s) ==
    IF s = <<>> THEN 0
    ELSE 10 * DigitsValue(SubSeq(s, 1, Len(s) - 1))
         + ((CHOOSE i \in DOMAIN Digits : Digits[i] = s[Len(s)]) - 1)

ToNumeric(cell) ==
    IF cell.na \/ ~IsDigitStr(Strip(cell.s))
    THEN [na |-> TRUE, n |-> 0]
    ELSE [na |-> FALSE, n |-> DigitsValue(Strip(cell.s))]

\* the header of one column as text: a flat header is its own text, a
\* multi-level header is ' '.join(map(str, col))
HeaderText(df, c) ==
    IF df.multi THEN JoinSpace(df.columns[c]) ELSE df.columns[c][1]

\* lines 198-203: first column whose header contains 'Teammate' (0: None)
TeammateCol(df) ==
    LET hit == {c \in DOMAIN df.columns : Contains(Teammate, HeaderText(df, c))}
    IN  IF hit = {} THEN 0 ELSE CHOOSE c \in hit : \A d \in hit : c <= d

\* lines 206-210: first column named 'G', or whose last level is 'G' (0: None)
GCol(df) ==
    LET last(c) == df.columns[c][Len(df.columns[c])]
        hit == {c \in DOMAIN df.columns : Strip(last(c)) = <<"G">>}
    IN  IF hit = {} THEN 0 ELSE CHOOSE c \in hit : \A d \in hit : c <= d

\* lines 214-217: the row mask
GMaskMutant(df, r, mingames) ==
    IF GCol(df) = 0 THEN TRUE
    ELSE LET g == ToNumeric(df.rows[r][GCol(df)])
         IN  ~g.na /\ g.n >= mingames
GMask(df, r, mingames) ==
    IF GCol(df) = 0 THEN TRUE
    ELSE LET g == ToNumeric(df.rows[r][GCol(df)])
         IN  ~g.na /\ g.n > mingames

\* lines 224-225: drop the asterisks, then strip
CleanName(s) == Strip(RemoveStars(s))

\* line 226: s.str.len() > 2 and not s.str.isdigit()
MinNameLen == 2
KeepName(s) == Len(s) > MinNameLen /\ ~IsDigitStr(s)

\* lines 220-228: rows under the mask, dropna, clean, filter, in table order
RECURSIVE RosterFrom(_, _, _, _)
RosterFrom(df, r, col, mingames) ==
    IF r > Len(df.rows) THEN <<>>
    ELSE LET cell == df.rows[r][col]
             rest == RosterFrom(df, r + 1, col, mingames)
         IN  IF GMask(df, r, mingames) /\ ~cell.na /\ KeepName(CleanName(cell.s))
             THEN <<CleanName(cell.s)>> \o rest
             ELSE rest

\* src/basketball_teammate_game.py fetch_teammates: every failure of the
\* download and a missing table give [], as does a table with no Teammate column
fetch_teammates(resp, mingames) ==
    IF resp.kind # "table" THEN <<>>
    ELSE IF TeammateCol(resp.df) = 0 THEN <<>>
    ELSE RosterFrom(resp.df, 1, TeammateCol(resp.df), mingames)

\* src/nna_guess_teammate.py lines 100-118: the column read as teammates_series
\* (0: the name is never bound; -1: return [])
NnaTeammateCol(df) ==
    IF df.multi
    THEN LET hit == {c \in DOMAIN df.columns :
                        \E l \in DOMAIN df.columns[c] :
                            Contains(Teammate, df.columns[c][l])}
         IN  IF hit = {} THEN 0 ELSE CHOOSE c \in hit : \A d \in hit : c <= d
    ELSE IF \E c \in DOMAIN df.columns : df.columns[c][1] = Teammate
         THEN CHOOSE c \in DOMAIN df.columns :
                  /\ df.columns[c][1] = Teammate
                  /\ \A d \in DOMAIN df.columns :
                         df.columns[d][1] = Teammate => c <= d
         ELSE IF Len(df.columns) > 1 THEN 2 ELSE -1

\* src/nna_guess_teammate.py lines 121-126
RECURSIVE NnaRosterFrom(_, _, _)
NnaRosterFrom(df, r, col) ==
    IF r > Len(df.rows) THEN <<>>
    ELSE LET cell == df.rows[r][col]
             rest == NnaRosterFrom(df, r + 1, col)
             t    == Strip(RemoveStars(cell.s))
         IN  IF ~cell.na /\ cell.s # <<>> /\ cell.s # <<"n","a","n">>
                /\ Len(t) > MinNameLen /\ ~IsDigitStr(t)
             THEN <<t>> \o rest
             ELSE rest

\* src/nna_guess_teammate.py fetch_teammates
nna_fetch_teammates(resp) ==
    IF resp.kind # "table" THEN <<>>
    ELSE IF NnaTeammateCol(resp.df) < 1 THEN <<>>
    ELSE NnaRosterFrom(resp.df, 1, NnaTeammateCol(resp.df))

(***************************************************************************)
(* search_player.  A URL is the sequence of its path segments and a        *)
(* segment a sequence of tokens, ".html" being one token; a page title is  *)
(* a sequence of characters in which " Stats" is one token.                *)
(***************************************************************************)
\* '/players/' in url
HasPlayersPath(url) == \E i \in 1..(Len(url) - 1) : url[i] = <<"players">>

\* url.split('/')[-1].replace('.html', '')
NotHtmlSuffix(tok) == tok # ".html"
PidOfUrl(url) == SelectSeq(url[Len(url)], NotHtmlSuffix)

\* title.get_text().split(' Stats')[0]
RECURSIVE BeforeStats(_)
BeforeStats(text) ==
    IF text = <<>> \/ Head(text) = " Stats" THEN <<>>
    ELSE <<Head(text)>> \o BeforeStats(Tail(text))

\* lines 151-157: the player links of the search-results div, in page order
PlayerLinksMutant(links) ==
    [i \in DOMAIN links |->
        [name |-> Strip(links[i].text), pid |-> PidOfUrl(links[i].href),
         url |-> links[i].href]]
PlayerLinks(links) ==
    LET IsPlayer(l) == HasPlayersPath(l.href)
        picked == SelectSeq(links, IsPlayer)
    IN  [i \in DOMAIN picked |->
            [name |-> Strip(picked[i].text), pid |-> PidOfUrl(picked[i].href),
             url |-> picked[i].href]]

\* lines 122-162 (nna_guess_teammate.py 24-63): any failure gives []
search_player(resp) ==
    IF resp.kind = "error" THEN <<>>
    ELSE IF HasPlayersPath(resp.url)
         THEN IF resp.title.present
              THEN <<[name |-> BeforeStats(resp.title.text),
                      pid |-> PidOfUrl(resp.url), url |-> resp.url]>>
              ELSE <<>>
         ELSE IF resp.div THEN PlayerLinks(resp.links) ELSE <<>>

(***************************************************************************)
(* The provider as the game sees it: the players that have a page, what a  *)
(* search may answer, and the tables a roster request may answer.          *)
(***************************************************************************)
SitePlayers ==
    { [pid |-> "nurkiju01", dir |-> "n", name |-> NurkicAccent],
      [pid |-> "loveke01",  dir |-> "l", name |-> Love],
      [pid |-> "irvinky01", dir |-> "i", name |-> Irving],
      [pid |-> "jamesle01", dir |-> "j", name |-> James] }

PlayerUrl(p) == <<<<"players">>, <<p.dir>>, <<p.pid, ".html">>>>
SearchUrl == <<<<"search">>, <<"search", ".fcgi">>>>
TeamUrl == <<<<"teams">>, <<"POR">>>>
NoTitle == [present |-> FALSE, text |-> <<>>]

ErrorResp == [kind |-> "error"]
RedirectResp(p) ==
    [kind |-> "ok", url |-> PlayerUrl(p),
     title |-> [present |-> TRUE, text |-> p.name \o <<" Stats", ",", " ", "H">>],
     div |-> FALSE, links |-> <<>>]
ListingResp(links) ==
    [kind |-> "ok", url |-> SearchUrl,
     title |-> [present |-> TRUE, text |-> <<"S","e","a","r","c","h">>],
     div |-> TRUE, links |-> links]
NoResultsResp ==
    [kind |-> "ok", url |-> SearchUrl, title |-> NoTitle,
     div |-> FALSE, links |-> <<>>]
PlayerLink(p) == [href |-> PlayerUrl(p), text |-> p.name]
TeamLink == [href |-> TeamUrl, text |-> <<"P","O","R">>]

\* the site's search ignores case and accents
Matching(q) == {p \in SitePlayers : normalize_name(p.name) = normalize_name(q)}
SearchResponses(q) ==
    {ErrorResp, NoResultsResp}
    \cup {RedirectResp(p) : p \in Matching(q)}
    \cup {ListingResp(<<TeamLink, PlayerLink(p)>>) : p \in Matching(q)}

Sixty == <<"6","0">>
Fifty == <<"5","0">>
FlatTG  == [multi |-> FALSE, columns |-> <<<<Teammate>>, <<<<"G">>>>>>]
FlatNoG == [multi |-> FALSE, columns |-> <<<<Teammate>>, <<<<"R","k">>>>>>]
Row(n, g) == <<Cell(n), Cell(g)>>
Table(h, rs) ==
    [kind |-> "table", df |-> [multi |-> h.multi, columns |-> h.columns, rows |-> rs]]
\* rosters: [Love, Irving, James]; [Love, Love, Irving] (two players of one
\* name); [Love, Irving]; [Nurkic', Love] (header echo dropped by its G);
\* [Nurkic, Love] or [Love] by min_games; [Teammate, Nurkic', Irving] (no G)
RosterResponses ==
    { [kind |-> "error"], [kind |-> "notable"],
      Table(FlatTG, <<Row(Love \o <<"*">>, Sixty), Row(Irving, Sixty), Row(James, Sixty)>>),
      Table(FlatTG, <<Row(Love, Sixty), Row(Love, Sixty), Row(Irving, Sixty)>>),
      Table(FlatTG, <<Row(Love, Sixty), Row(Irving, Sixty)>>),
      Table(FlatTG, <<Row(NurkicAccent, Sixty), Row(Teammate, <<"G">>), Row(Love, Sixty)>>),
      Table(FlatTG, <<Row(Nurkic, Fifty), Row(Love, Sixty)>>),
      Table(FlatNoG, <<Row(Teammate, <<"R","k">>), Row(NurkicAccent, <<"1">>),
                       Row(Irving, <<"2">>)>>) }

(***************************************************************************)
(* Each specification below runs one part of the program; the variables of *)
(* the other parts stay at these values.                                   *)
(***************************************************************************)
\* line 445: min_games = 50 if difficulty == "..." else 0
EasyMinGames == 50
HardMinGames == 0

\* fetch_teammates at rest
IdleParse ==
    /\ html = [kind |-> "error"] /\ f_min_games = HardMinGames
    /\ teammates = <<>> /\ nna_teammates = <<>> /\ f_pc = {}

\* the intersection step at rest
IdleIntersect ==
    /\ t1 = <<>> /\ t2 = <<>> /\ t3 = <<>>
    /\ common = {} /\ pairwise = <<>> /\ i_pc = "idle"

\* the guess check at rest
IdleGuess ==
    /\ g_common = {} /\ g_answer = <<>> /\ guess = <<>>
    /\ verdict = [comp |-> "none", player |-> "none", nna |-> "none"]
    /\ g_pc = {}

\* generate_computer_question before it is called
NoIdentity == [name |-> <<>>, pid |-> <<>>, url |-> <<>>]
NoResult == [kind |-> "running"]
LocalsUnset ==
    /\ target_player = <<>> /\ target_info = NoIdentity
    /\ target_teammates = <<>> /\ clue_players = <<>>
    /\ clue_search_results = <<>> /\ clue_html = <<>>
    /\ clue_teammates_lists = <<>>
IdleGen ==
    /\ all_players = <<>> /\ max_trials = 0 /\ min_games = HardMinGames
    /\ trials = 0 /\ pc = "idle" /\ result = NoResult
    /\ LocalsUnset

\* player mode before the first script run
NoMessage == [kind |-> "nothing"]
IdleSession ==
    /\ app = "main" /\ session_state = <<>> /\ shown = NoMessage

\* search_player at rest
IdleSearch ==
    /\ s_resp = [kind |-> "error"] /\ s_results = <<>> /\ s_pc = "idle"

\* normalize_name at rest
IdleNorm ==
    /\ n_name = <<>> /\ n_variant = <<>>
    /\ normalized = [once |-> <<>>, twice |-> <<>>, variant |-> <<>>]
    /\ n_pc = "idle"

\* computer mode before the first script run: the radio shows its first option
\* the labels of the radio at lines 439-444, written as sequences of words in
\* transliteration: "jiandan" + "(dagailv tongdui)" is the first option,
\* "kunnan" the second; line 445 compares the selection with "jiandan"
EasyLiteral == <<"jiandan">>
EasyOption == <<"jiandan", "(", "dagailv", "tongdui", ")">>
HardOption == <<"kunnan">>
IdleComp ==
    /\ difficulty = EasyOption /\ comp_min_games = HardMinGames
    /\ comp_state = <<>> /\ comp_shown = NoMessage /\ c_pc = "idle"

IdleExt == IdleSearch /\ IdleNorm /\ IdleComp

(***************************************************************************)
(* Specification SpecParse: fetch_teammates of both files on every         *)
(* provider answer within the bounds.                                      *)
(***************************************************************************)
MaxRows == 2
MinGamesValues == {HardMinGames, EasyMinGames}

SeqsUpTo(S, n) == UNION {[1..k -> S] : k \in 0..n}

Rk     == <<"R","k">>
Totals == <<"T","o","t","a","l","s">>
GHead  == <<"G">>
\* cells of the first column: NaN, a header echo, "Love*", " Al ", "123"
NameCells == {NaN, Cell(Teammate), Cell(Love \o <<"*">>),
              Cell(<<" ","A","l"," ">>), Cell(<<"1","2","3">>)}
\* cells of the second column: NaN, a header echo, "60", "50"
GCells == {NaN, Cell(GHead), Cell(<<"6","0">>), Cell(<<"5","0">>)}
TableRows == {<<a, b>> : a \in NameCells, b \in GCells}
\* flat and two-level headers, with and without the Teammate and G columns
Headers ==
    { [multi |-> FALSE, columns |-> <<<<Teammate>>, <<GHead>>>>],
      [multi |-> FALSE, columns |-> <<<<Teammate>>, <<Rk>>>>],
      [multi |-> FALSE, columns |-> <<<<Rk>>, <<GHead>>>>],
      [multi |-> TRUE,  columns |-> <<<<Rk, Teammate>>, <<Totals, GHead>>>>] }
Tables ==
    { [multi |-> h.multi, columns |-> h.columns, rows |-> rs] :
          h \in Headers, rs \in SeqsUpTo(TableRows, MaxRows) }
\* requests.get raising / raise_for_status, a page without <table>, a table
Responses ==
    { [kind |-> "error"], [kind |-> "notable"] }
    \cup { [kind |-> "table", df |-> t] : t \in Tables }

InitParse ==
    /\ IdleExt /\ IdleIntersect /\ IdleGuess /\ IdleGen /\ IdleSession
    /\ html \in Responses
    /\ f_min_games \in MinGamesValues
    /\ teammates = <<>>
    /\ nna_teammates = <<>>
    /\ f_pc = {}

\* basketball_teammate_game.fetch_teammates(pid, full_name, min_games)
FetchTeammates ==
    /\ "main" \notin f_pc
    /\ teammates' = fetch_teammates(html, f_min_games)
    /\ f_pc' = f_pc \cup {"main"}
    /\ UNCHANGED <<html, f_min_games, nna_teammates, intersectVars, guessVars, genVars, sessionVars, extVars>>

\* nna_guess_teammate.fetch_teammates(pid, full_name)
NnaFetchTeammates ==
    /\ "nna" \notin f_pc
    /\ nna_teammates' = nna_fetch_teammates(html)
    /\ f_pc' = f_pc \cup {"nna"}
    /\ UNCHANGED <<html, f_min_games, teammates, intersectVars, guessVars, genVars, sessionVars, extVars>>

NextParse == FetchTeammates \/ NnaFetchTeammates

SpecParse == InitParse /\ [][NextParse]_vars

(***************************************************************************)
(* The intersection step: basketball_teammate_game.py lines 93-94 and      *)
(* 356-357 (and nna_guess_teammate.py line 244, which has no filter).      *)
(***************************************************************************)
\* set(t)
ToSet(t) == {t[i] : i \in DOMAIN t}

\* c.lower() != 'teammate'
NotSentinelMutant(c) == c # SentinelLower
NotSentinel(c) == Lower(c) # SentinelLower

\* common = set(t1) & set(t2) & set(t3); common = {c for c in common if ...}
CommonTeammates(a, b, c) == {x \in (ToSet(a) \cap ToSet(b)) \cap ToSet(c) : NotSentinel(x)}

\* nna_guess_teammate.py line 244: common = set(t1) & set(t2) & set(t3)
NnaCommonTeammates(a, b, c) == (ToSet(a) \cap ToSet(b)) \cap ToSet(c)

\* lines 361-363: set(t1) & set(t2), set(t1) & set(t3), set(t2) & set(t3)
PairwiseCommon(a, b, c) ==
    <<ToSet(a) \cap ToSet(b), ToSet(a) \cap ToSet(c), ToSet(b) \cap ToSet(c)>>

(***************************************************************************)
(* Specification SpecIntersect: the intersection step on every triple of   *)
(* rosters within the bounds.                                              *)
(***************************************************************************)
MaxListLen == 2
IntersectNames == {Love, Irving, Teammate}

InitIntersect ==
    /\ IdleExt /\ IdleParse /\ IdleGuess /\ IdleGen /\ IdleSession
    /\ t1 \in SeqsUpTo(IntersectNames, MaxListLen)
    /\ t2 \in SeqsUpTo(IntersectNames, MaxListLen)
    /\ t3 \in SeqsUpTo(IntersectNames, MaxListLen)
    /\ common = {}
    /\ pairwise = <<>>
    /\ i_pc = "input"

\* lines 356-363: the common set; the pairwise sets are computed (and their
\* sizes shown) only on the branch where common is empty (<<>>: not computed)
Intersect ==
    /\ i_pc = "input"
    /\ common' = CommonTeammates(t1, t2, t3)
    /\ pairwise' = IF CommonTeammates(t1, t2, t3) = {}
                   THEN PairwiseCommon(t1, t2, t3)
                   ELSE <<>>
    /\ i_pc' = "done"
    /\ UNCHANGED <<t1, t2, t3, parseVars, guessVars, genVars, sessionVars, extVars>>

NextIntersect == Intersect

SpecIntersect == InitIntersect /\ [][NextIntersect]_vars

(***************************************************************************)
(* Guess checking.  "none": the check did not run (nothing submitted),     *)
(* "correct": the success branch, "wrong": the error branch, "close": the  *)
(* error branch of nna_guess_teammate.py followed by its warning.          *)
(***************************************************************************)
\* basketball_teammate_game.py lines 500-527, computer mode
GuessCheckComputer(g, all_answers) ==
    IF g = <<>> THEN "none"
    ELSE IF normalize_name(g) \in {normalize_name(ans) : ans \in all_answers}
         THEN "correct"
         ELSE "wrong"

\* basketball_teammate_game.py lines 410-424, player mode
GuessCheckPlayer(g, cs) ==
    IF g = <<>> THEN "none"
    ELSE IF normalize_name(g) \in {normalize_name(t) : t \in cs}
         THEN "correct"
         ELSE "wrong"

\* nna_guess_teammate.py lines 294-309
NnaGuessCheck(g, answer, cs) ==
    IF g = <<>> THEN "none"
    ELSE IF Lower(Strip(g)) = Lower(Strip(answer)) THEN "correct"
    ELSE IF Lower(Strip(g)) \in {Lower(t) : t \in cs} THEN "close"
    ELSE "wrong"

(***************************************************************************)
(* Specification SpecGuess: the three guess checks on every answer set,    *)
(* designated answer and guess of the pools below.                         *)
(***************************************************************************)
AnswerNames == {NurkicAccent, Love, Irving}
\* "", "Nurkic", "Nurkic'" (accented), "nurkic' " (accented, trailing blank),
\* "NURKIC ", "Love", " love", "James"
GuessPool ==
    { <<>>, Nurkic, NurkicAccent, <<"n","u","r","k","i","c'"," ">>,
      <<"N","U","R","K","I","C"," ">>, Love, <<" ","l","o","v","e">>, James }

InitGuess ==
    /\ IdleExt /\ IdleParse /\ IdleIntersect /\ IdleGen /\ IdleSession
    /\ g_common \in (SUBSET AnswerNames) \ {{}}
    /\ g_answer \in g_common
    /\ guess \in GuessPool
    /\ verdict = [comp |-> "none", player |-> "none", nna |-> "none"]
    /\ g_pc = {}

\* computer mode of basketball_teammate_game.py: submit a guess
SubmitGuessComputer ==
    /\ "comp" \notin g_pc
    /\ verdict' = [verdict EXCEPT !.comp = GuessCheckComputer(guess, g_common)]
    /\ g_pc' = g_pc \cup {"comp"}
    /\ UNCHANGED <<g_common, g_answer, guess, parseVars, intersectVars, genVars, sessionVars, extVars>>

\* player mode of basketball_teammate_game.py: submit a guess
SubmitGuessPlayer ==
    /\ "player" \notin g_pc
    /\ verdict' = [verdict EXCEPT !.player = GuessCheckPlayer(guess, g_common)]
    /\ g_pc' = g_pc \cup {"player"}
    /\ UNCHANGED <<g_common, g_answer, guess, parseVars, intersectVars, genVars, sessionVars, extVars>>

\* nna_guess_teammate.py: submit a guess
NnaSubmitGuess ==
    /\ "nna" \notin g_pc
    /\ verdict' = [verdict EXCEPT !.nna = NnaGuessCheck(guess, g_answer, g_common)]
    /\ g_pc' = g_pc \cup {"nna"}
    /\ UNCHANGED <<g_common, g_answer, guess, parseVars, intersectVars, genVars, sessionVars, extVars>>

NextGuess == SubmitGuessComputer \/ SubmitGuessPlayer \/ NnaSubmitGuess

SpecGuess == InitGuess /\ [][NextGuess]_vars

(***************************************************************************)
(* Specification Spec: generate_computer_question(max_trials, min_games),  *)
(* basketball_teammate_game.py lines 36-117.  pc names the statement about *)
(* to run.  The locals of a trial are dead once the trial is abandoned     *)
(* (each is assigned again before it is read), so abandoning unsets them.  *)
(***************************************************************************)
MaxTrialsBound == 2
\* fetch_all_players(): a sorted list of names, possibly empty
Directories == { <<>>, <<Love, Nurkic>> }

\* lines 93-102: the intersection, then the target added when no entry of it
\* has the target's normalized name
AllAnswersMutant(target, lists) ==
    CommonTeammates(lists[1], lists[2], lists[3])
AllAnswers(target, lists) ==
    LET c == CommonTeammates(lists[1], lists[2], lists[3])
    IN  IF normalize_name(target) \notin {normalize_name(x) : x \in c}
        THEN c \cup {target}
        ELSE c

\* rng.sample(population, 3): three entries at pairwise distinct positions
Samples3(population) ==
    LET pos == DOMAIN population
    IN  { <<population[x[1]], population[x[2]], population[x[3]]>> :
              x \in { y \in pos \X pos \X pos :
                         y[1] # y[2] /\ y[1] # y[3] /\ y[2] # y[3] } }

Init ==
    /\ IdleExt /\ IdleParse /\ IdleIntersect /\ IdleGuess /\ IdleSession
    /\ all_players \in Directories
    /\ max_trials \in 0..MaxTrialsBound
    /\ min_games \in MinGamesValues
    /\ trials = 0
    /\ pc = "loop"
    /\ result = NoResult
    /\ LocalsUnset

\* `continue`, from the try body or from the except clause
Abandon ==
    /\ pc' = "loop"
    /\ target_player' = <<>> /\ target_info' = NoIdentity
    /\ target_teammates' = <<>> /\ clue_players' = <<>>
    /\ clue_search_results' = <<>> /\ clue_html' = <<>>
    /\ clue_teammates_lists' = <<>>
    /\ UNCHANGED <<genParams, trials, result>>

\* lines 47-51: the loop test passes, trials += 1, rng.choice(all_players)
StartTrial ==
    /\ pc = "loop"
    /\ trials < max_trials
    /\ all_players # <<>>
    /\ trials' = trials + 1
    /\ \E i \in DOMAIN all_players : target_player' = all_players[i]
    /\ pc' = "search_target"
    /\ UNCHANGED <<genParams, target_info, target_teammates, clue_players,
                   clue_search_results, clue_html, clue_teammates_lists, result>>
    /\ UNCHANGED <<parseVars, intersectVars, guessVars, sessionVars, extVars>>

\* line 51, before the try of line 53: rng.choice of an empty list raises
\* IndexError, which leaves the function
DrawRaises ==
    /\ pc = "loop"
    /\ trials < max_trials
    /\ all_players = <<>>
    /\ trials' = trials + 1
    /\ result' = [kind |-> "raised"]
    /\ pc' = "done"
    /\ UNCHANGED <<genParams, genLocals, parseVars, intersectVars, guessVars, sessionVars, extVars>>

\* line 117: the loop test fails, return None
ReturnNone ==
    /\ pc = "loop"
    /\ ~(trials < max_trials)
    /\ result' = [kind |-> "none"]
    /\ pc' = "done"
    /\ UNCHANGED <<genParams, trials, genLocals, parseVars, intersectVars, guessVars, sessionVars, extVars>>

\* lines 55-59
SearchTarget ==
    /\ pc = "search_target"
    /\ \E resp \in SearchResponses(target_player) :
          LET search_result == search_player(resp)
          IN  IF search_result = <<>>
              THEN Abandon
              ELSE /\ target_info' = search_result[1]
                   /\ pc' = "fetch_target"
                   /\ UNCHANGED <<genParams, trials, target_player, target_teammates,
                                  clue_players, clue_search_results, clue_html,
                                  clue_teammates_lists, result>>
    /\ UNCHANGED <<parseVars, intersectVars, guessVars, sessionVars, extVars>>

\* lines 62-65
FetchTargetMutant ==
    /\ pc = "fetch_target"
    /\ \E resp \in RosterResponses :
          LET fetched == fetch_teammates(resp, min_games)
          IN  IF Len(fetched) < 2
              THEN Abandon
              ELSE /\ target_teammates' = fetched
                   /\ pc' = "sample"
                   /\ UNCHANGED <<genParams, trials, target_player, target_info,
                                  clue_players, clue_search_results, clue_html,
                                  clue_teammates_lists, result>>
    /\ UNCHANGED <<parseVars, intersectVars, guessVars, sessionVars, extVars>>
FetchTarget ==
    /\ pc = "fetch_target"
    /\ \E resp \in RosterResponses :
          LET fetched == fetch_teammates(resp, min_games)
          IN  IF Len(fetched) < 3
              THEN Abandon
              ELSE /\ target_teammates' = fetched
                   /\ pc' = "sample"
                   /\ UNCHANGED <<genParams, trials, target_player, target_info,
                                  clue_players, clue_search_results, clue_html,
                                  clue_teammates_lists, result>>
    /\ UNCHANGED <<parseVars, intersectVars, guessVars, sessionVars, extVars>>

\* line 68
SampleClues ==
    /\ pc = "sample"
    /\ clue_players' \in Samples3(target_teammates)
    /\ pc' = "search_clues"
    /\ UNCHANGED <<genParams, trials, target_player, target_info, target_teammates,
                   clue_search_results, clue_html, clue_teammates_lists, result>>
    /\ UNCHANGED <<parseVars, intersectVars, guessVars, sessionVars, extVars>>

\* lines 72-79: one pass of the loop over clue_players; a clue that is not
\* found breaks the loop and the length test abandons the trial
SearchClue ==
    /\ pc = "search_clues"
    /\ \E resp \in SearchResponses(clue_players[Len(clue_search_results) + 1]) :
          LET found == search_player(resp)
          IN  IF found = <<>>
              THEN Abandon
              ELSE /\ clue_search_results' = Append(clue_search_results, found[1])
                   /\ pc' = IF Len(clue_search_results) + 1 = 3
                            THEN "fetch_clues" ELSE "search_clues"
                   /\ UNCHANGED <<genParams, trials, target_player, target_info,
                                  target_teammates, clue_players, clue_html,
                                  clue_teammates_lists, result>>
    /\ UNCHANGED <<parseVars, intersectVars, guessVars, sessionVars, extVars>>

\* lines 83-90: one pass of the loop over clue_search_results; an empty
\* roster breaks the loop and the length test abandons the trial
FetchClue ==
    /\ pc = "fetch_clues"
    /\ \E resp \in RosterResponses :
          LET fetched == fetch_teammates(resp, min_games)
          IN  IF fetched = <<>>
              THEN Abandon
              ELSE /\ clue_teammates_lists' = Append(clue_teammates_lists, fetched)
                   /\ clue_html' = Append(clue_html, resp)
                   /\ pc' = IF Len(clue_teammates_lists) + 1 = 3
                            THEN "intersect" ELSE "fetch_clues"
                   /\ UNCHANGED <<genParams, trials, target_player, target_info,
                                  target_teammates, clue_players,
                                  clue_search_results, result>>
    /\ UNCHANGED <<parseVars, intersectVars, guessVars, sessionVars, extVars>>

\* lines 93-111: intersect, add the target if missing, return the puzzle
\* (an empty common set would fall through to the next trial)
ReturnPuzzle ==
    /\ pc = "intersect"
    /\ LET answers == AllAnswers(target_player, clue_teammates_lists)
       IN  IF Cardinality(answers) >= 1
           THEN /\ result' =
                      [kind |-> "puzzle",
                       clues |-> [i \in 1..3 |-> clue_search_results[i].name],
                       all_answers |-> answers,
                       guaranteed_answer |-> target_player,
                       answer |-> target_player]
                /\ pc' = "done"
                /\ UNCHANGED <<genParams, trials, genLocals>>
           ELSE Abandon
    /\ UNCHANGED <<parseVars, intersectVars, guessVars, sessionVars, extVars>>

\* lines 113-115: a statement inside the try raises; the except clause
\* continues with the next trial
TrialException ==
    /\ pc \in {"search_target", "fetch_target", "search_clues", "fetch_clues"}
    /\ Abandon
    /\ UNCHANGED <<parseVars, intersectVars, guessVars, sessionVars, extVars>>

Next ==
    \/ StartTrial \/ DrawRaises \/ ReturnNone
    \/ SearchTarget \/ FetchTarget \/ SampleClues
    \/ SearchClue \/ FetchClue \/ ReturnPuzzle \/ TrialException

Spec == Init /\ [][Next]_vars

(***************************************************************************)
(* Specification SpecSession: player mode of both apps.  One action is one *)
(* script run with one button pressed; session_state is st.session_state,  *)
(* a function from the keys it holds, and shown is the message of the run. *)
(* basketball_teammate_game.py lines 254-255 and 271-431,                  *)
(* nna_guess_teammate.py lines 142-143 and 157-309.                        *)
(***************************************************************************)
FetchDefaultMinGames == 0
PlayerInputs == { <<>>, Love, Nurkic }
SessionGuesses == { Love, Nurkic }

Has(key) == key \in DOMAIN session_state
\* st.session_state.get(key), used on boolean flags
Flag(key) == Has(key) /\ session_state[key]

\* the rosters each app can get on confirm: fetch_teammates(pid, name) with
\* the default min_games, or the fetch_teammates of nna_guess_teammate.py
SessionResponses ==
    { [kind |-> "error"],
      Table(FlatTG, <<Row(Love, Sixty), Row(Irving, Sixty)>>),
      Table(FlatTG, <<Row(NurkicAccent, Sixty), Row(Teammate, <<"G">>), Row(Love, Sixty)>>),
      Table(FlatNoG, <<Row(Teammate, <<"R","k">>), Row(NurkicAccent, <<"1">>),
                       Row(Irving, <<"2">>)>>) }
MainRosters == {fetch_teammates(resp, FetchDefaultMinGames) : resp \in SessionResponses}
NnaRosters == {nna_fetch_teammates(resp) : resp \in SessionResponses}
\* what search_player can return for each text input
SearchResults == [q \in PlayerInputs |-> {search_player(resp) : resp \in SearchResponses(q)}]
AppRosters == IF app = "main" THEN MainRosters ELSE NnaRosters
\* the common set each app computes on confirm
AppCommon(a, b, c) ==
    IF app = "main" THEN CommonTeammates(a, b, c) ELSE NnaCommonTeammates(a, b, c)

InitSession ==
    /\ IdleExt /\ IdleParse /\ IdleIntersect /\ IdleGuess /\ IdleGen
    /\ app \in {"main", "nna"}
    /\ session_state = ("game_started" :> FALSE)
    /\ shown = NoMessage

\* reset_game() and st.rerun(): the keys are deleted, the rerun puts
\* game_started = False back
ResetButtonMutant ==
    /\ session_state' =
          [k \in DOMAIN session_state \ {"common"} |-> session_state[k]]
    /\ shown' = NoMessage
    /\ UNCHANGED <<app, parseVars, intersectVars, guessVars, genVars, extVars>>
ResetButton ==
    /\ session_state' = ("game_started" :> FALSE)
    /\ shown' = NoMessage
    /\ UNCHANGED <<app, parseVars, intersectVars, guessVars, genVars, extVars>>

\* lines 289-312: start game with the three text inputs
StartGameButton ==
    /\ \E p1 \in PlayerInputs, p2 \in PlayerInputs, p3 \in PlayerInputs :
          IF p1 = <<>> \/ p2 = <<>> \/ p3 = <<>>
          THEN /\ shown' = [kind |-> "need_three_names"]
               /\ UNCHANGED session_state
          ELSE \E choices1 \in SearchResults[p1], choices2 \in SearchResults[p2],
                  choices3 \in SearchResults[p3] :
                      IF choices1 = <<>> \/ choices2 = <<>> \/ choices3 = <<>>
                      THEN /\ shown' = [kind |-> "player_not_found"]
                           /\ UNCHANGED session_state
                      ELSE /\ session_state' =
                                 ("choices1" :> choices1) @@ ("choices2" :> choices2)
                                 @@ ("choices3" :> choices3)
                                 @@ ("search_completed" :> TRUE) @@ session_state
                           /\ shown' = [kind |-> "players_found"]
    /\ UNCHANGED <<app, parseVars, intersectVars, guessVars, genVars, extVars>>

\* lines 336-375: confirm the selection, fetch the three rosters, intersect
ConfirmButton ==
    /\ Flag("search_completed")
    /\ \E i1 \in DOMAIN session_state["choices1"],
          i2 \in DOMAIN session_state["choices2"],
          i3 \in DOMAIN session_state["choices3"] :
       \E r1 \in AppRosters, r2 \in AppRosters, r3 \in AppRosters :
          LET sel1 == session_state["choices1"][i1]
              sel2 == session_state["choices2"][i2]
              sel3 == session_state["choices3"][i3]
              found == AppCommon(r1, r2, r3)
          IN  IF found = {}
              THEN /\ shown' = [kind |-> "no_common_teammate"]
                   /\ UNCHANGED session_state
              ELSE \E answer \in found :
                      /\ session_state' =
                            ("answer" :> answer) @@ ("common" :> found)
                            @@ ("selected_players" :> <<sel1.name, sel2.name, sel3.name>>)
                            @@ ("game_started" :> TRUE) @@ session_state
                      /\ shown' = [kind |-> "common_found"]
    /\ UNCHANGED <<app, parseVars, intersectVars, guessVars, genVars, extVars>>

\* lines 406-407: show the first letter of the answer
HintButton ==
    /\ Flag("game_started") /\ Has("answer")
    /\ shown' = [kind |-> "hint", letter |-> session_state["answer"][1]]
    /\ UNCHANGED <<app, session_state, parseVars, intersectVars, guessVars, genVars, extVars>>

\* lines 426-431: give up (basketball_teammate_game.py only)
GiveUpButton ==
    /\ app = "main"
    /\ Flag("game_started") /\ Has("answer")
    /\ shown' = [kind |-> "gave_up", answer |-> session_state["answer"]]
    /\ UNCHANGED <<app, session_state, parseVars, intersectVars, guessVars, genVars, extVars>>

\* lines 410-424 (nna_guess_teammate.py 294-309): submit a guess
SubmitGuessButton ==
    /\ Flag("game_started") /\ Has("answer")
    /\ \E g \in SessionGuesses :
          shown' =
              [kind |-> "verdict",
               verdict |->
                   IF app = "main"
                   THEN GuessCheckPlayer(g, session_state["common"])
                   ELSE NnaGuessCheck(g, session_state["answer"],
                                      session_state["common"])]
    /\ UNCHANGED <<app, session_state, parseVars, intersectVars, guessVars, genVars, extVars>>

NextSession ==
    \/ ResetButton \/ StartGameButton \/ ConfirmButton
    \/ HintButton \/ GiveUpButton \/ SubmitGuessButton

SpecSession == InitSession /\ [][NextSession]_vars

(***************************************************************************)
(* Specification SpecSearch: search_player on every provider answer within *)
(* the bounds.                                                             *)
(***************************************************************************)
MaxLinks == 3
\* the <a> elements a results page may hold
LinkPool == {PlayerLink(p) : p \in SitePlayers} \cup {TeamLink}

\* requests.get / raise_for_status raising; a redirect to a player page, with
\* and without a <title>; a results page with and without the search-results
\* div and any links in it
SearchPool ==
    {ErrorResp, NoResultsResp}
    \cup {RedirectResp(p) : p \in SitePlayers}
    \cup {[RedirectResp(p) EXCEPT !.title = NoTitle] : p \in SitePlayers}
    \cup {ListingResp(links) : links \in SeqsUpTo(LinkPool, MaxLinks)}
    \cup {[ListingResp(links) EXCEPT !.div = FALSE] : links \in SeqsUpTo(LinkPool, 1)}

InitSearch ==
    /\ IdleParse /\ IdleIntersect /\ IdleGuess /\ IdleGen /\ IdleSession
    /\ IdleNorm /\ IdleComp
    /\ s_resp \in SearchPool
    /\ s_results = <<>>
    /\ s_pc = "input"

\* search_player(player_name) on the answer the provider gave
SearchPlayer ==
    /\ s_pc = "input"
    /\ s_results' = search_player(s_resp)
    /\ s_pc' = "done"
    /\ UNCHANGED <<s_resp, normVars, compVars>>
    /\ UNCHANGED <<parseVars, intersectVars, guessVars, genVars, sessionVars>>

NextSearch == SearchPlayer

SpecSearch == InitSearch /\ [][NextSearch]_vars

(***************************************************************************)
(* Specification SpecNormalize: normalize_name on every name within the    *)
(* bounds, on its own result, and on a second spelling of the same name.   *)
(***************************************************************************)
MaxNameLen == 3
\* letters of both cases, with and without the accent, the combining accent
\* and the blank
NameChars == {"a", "c", "C", "c'", "C'", "'", " "}
Names == SeqsUpTo(NameChars, MaxNameLen)

\* the same letter in the other case
SwapCase(c) ==
    CASE c = "a" -> "A" [] c = "c" -> "C" [] c = "C" -> "c"
      [] c = "c'" -> "C'" [] c = "C'" -> "c'" [] OTHER -> c

\* the same letter with the accent added or taken away (precomposed form)
ToggleAccent(c) ==
    CASE c = "c" -> "c'" [] c = "c'" -> "c" [] c = "C" -> "C'"
      [] c = "C'" -> "C" [] OTHER -> c

\* other spellings of x: one letter in the other case, one accent added or
\* removed (precomposed, or a combining accent put after a character), a
\* blank added in front or behind
Spellings(x) ==
    {[x EXCEPT ![i] = SwapCase(x[i])] : i \in DOMAIN x}
    \cup {[x EXCEPT ![i] = ToggleAccent(x[i])] : i \in DOMAIN x}
    \cup {SubSeq(x, 1, i) \o <<"'">> \o SubSeq(x, i + 1, Len(x)) : i \in DOMAIN x}
    \cup {<<" ">> \o x, x \o <<" ">>}

InitNormalize ==
    /\ IdleParse /\ IdleIntersect /\ IdleGuess /\ IdleGen /\ IdleSession
    /\ IdleSearch /\ IdleComp
    /\ n_name \in Names
    /\ n_variant \in Spellings(n_name)
    /\ normalized = [once |-> <<>>, twice |-> <<>>, variant |-> <<>>]
    /\ n_pc = "input"

\* normalize_name(name), normalize_name of that result, normalize_name(variant)
NormalizeName ==
    /\ n_pc = "input"
    /\ normalized' = [once |-> normalize_name(n_name),
                      twice |-> normalize_name(normalize_name(n_name)),
                      variant |-> normalize_name(n_variant)]
    /\ n_pc' = "done"
    /\ UNCHANGED <<n_name, n_variant, searchVars, compVars>>
    /\ UNCHANGED <<parseVars, intersectVars, guessVars, genVars, sessionVars>>

NextNormalize == NormalizeName

SpecNormalize == InitNormalize /\ [][NextNormalize]_vars

(***************************************************************************)
(* Specification SpecComputer: computer mode of basketball_teammate_game.py *)
(* (lines 435-540).  One action is one script run with one widget used;    *)
(* the run of the "generate" button is split at the call of                *)
(* generate_computer_question, whose steps are the actions of Next.        *)
(***************************************************************************)
\* line 36: the default of max_trials, which line 449 leaves in place
DefaultMaxTrials == 20
CompGuesses == { Love, Nurkic }

CompHas(key) == key \in DOMAIN comp_state
\* st.session_state.get("comp_start")
CompStarted == CompHas("comp_start") /\ comp_state["comp_start"]

\* line 445: min_games = 50 if difficulty == "jiandan" else 0
MinGamesFor(d) == IF d = EasyLiteral THEN EasyMinGames ELSE HardMinGames

InitComputer ==
    /\ IdleParse /\ IdleIntersect /\ IdleGuess /\ IdleGen /\ IdleSession
    /\ IdleSearch /\ IdleNorm
    /\ difficulty = EasyOption
    /\ comp_min_games = MinGamesFor(EasyOption)
    /\ comp_state = <<>>
    /\ comp_shown = NoMessage
    /\ c_pc = "idle"

\* lines 439-445: the user picks the other radio option; the script reruns
SelectDifficulty ==
    /\ c_pc = "idle"
    /\ \E d \in {EasyOption, HardOption} :
          /\ d # difficulty
          /\ difficulty' = d
          /\ comp_min_games' = MinGamesFor(d)
    /\ comp_shown' = NoMessage
    /\ UNCHANGED <<comp_state, c_pc, searchVars, normVars>>
    /\ UNCHANGED <<parseVars, intersectVars, guessVars, genVars, sessionVars>>

\* lines 445-449: the generate button; generate_computer_question is entered
\* with min_games = min_games and the default max_trials (capped by the
\* bound); lines 43-46 of the callee run.  One question per session is
\* generated: the button is followed until a puzzle has been stored.
StartComputerGame ==
    /\ c_pc = "idle"
    /\ ~CompHas("comp_question")
    /\ comp_min_games' = MinGamesFor(difficulty)
    /\ min_games' = MinGamesFor(difficulty)
    /\ max_trials' = IF DefaultMaxTrials < MaxTrialsBound
                     THEN DefaultMaxTrials ELSE MaxTrialsBound
    /\ all_players' \in Directories
    /\ trials' = 0
    /\ pc' = "loop"
    /\ result' = NoResult
    /\ target_player' = <<>> /\ target_info' = NoIdentity
    /\ target_teammates' = <<>> /\ clue_players' = <<>>
    /\ clue_search_results' = <<>> /\ clue_html' = <<>>
    /\ clue_teammates_lists' = <<>>
    /\ comp_shown' = NoMessage
    /\ c_pc' = "generating"
    /\ UNCHANGED <<difficulty, comp_state, searchVars, normVars>>
    /\ UNCHANGED <<parseVars, intersectVars, guessVars, sessionVars>>

\* lines 449-460: generate_computer_question has returned (or raised)
FinishComputerGame ==
    /\ c_pc = "generating"
    /\ pc = "done"
    /\ IF result.kind = "puzzle"
       THEN /\ comp_state' =
                  ("comp_question" :> result) @@ ("comp_start" :> TRUE) @@ comp_state
            /\ comp_shown' =
                  [kind |-> "question_ready", count |-> Cardinality(result.all_answers)]
       ELSE /\ comp_shown' =
                  IF result.kind = "none" THEN [kind |-> "no_question"]
                  ELSE [kind |-> "exception"]
            /\ UNCHANGED comp_state
    /\ c_pc' = "idle"
    /\ UNCHANGED <<difficulty, comp_min_games, searchVars, normVars>>
    /\ UNCHANGED <<parseVars, intersectVars, guessVars, genVars, sessionVars>>

\* lines 497-498: hint
CompHintButton ==
    /\ c_pc = "idle" /\ CompStarted
    /\ comp_shown' =
          [kind |-> "hint", letter |-> comp_state["comp_question"].guaranteed_answer[1]]
    /\ UNCHANGED <<difficulty, comp_min_games, comp_state, c_pc, searchVars, normVars>>
    /\ UNCHANGED <<parseVars, intersectVars, guessVars, genVars, sessionVars>>

\* lines 500-527: submit a guess; a correct guess ends the round
CompSubmitGuessButton ==
    /\ c_pc = "idle" /\ CompStarted
    /\ \E g \in CompGuesses :
          LET v == GuessCheckComputer(g, comp_state["comp_question"].all_answers)
          IN  /\ comp_shown' = [kind |-> "verdict", verdict |-> v]
              /\ comp_state' = IF v = "correct"
                               THEN [comp_state EXCEPT !["comp_start"] = FALSE]
                               ELSE comp_state
    /\ UNCHANGED <<difficulty, comp_min_games, c_pc, searchVars, normVars>>
    /\ UNCHANGED <<parseVars, intersectVars, guessVars, genVars, sessionVars>>

\* lines 529-540: give up; the answers are listed and the round ends
CompGiveUpButton ==
    /\ c_pc = "idle" /\ CompStarted
    /\ comp_shown' =
          [kind |-> "gave_up", answers |-> comp_state["comp_question"].all_answers]
    /\ comp_state' = [comp_state EXCEPT !["comp_start"] = FALSE]
    /\ UNCHANGED <<difficulty, comp_min_games, c_pc, searchVars, normVars>>
    /\ UNCHANGED <<parseVars, intersectVars, guessVars, genVars, sessionVars>>

NextComputer ==
    \/ SelectDifficulty \/ StartComputerGame \/ FinishComputerGame
    \/ CompHintButton \/ CompSubmitGuessButton \/ CompGiveUpButton
    \/ StartTrial \/ DrawRaises \/ ReturnNone
    \/ SearchTarget \/ FetchTarget \/ SampleClues
    \/ SearchClue \/ FetchClue \/ ReturnPuzzle \/ TrialException

SpecComputer == InitComputer /\ [][NextComputer]_vars

(***************************************************************************)
(* Claims about fetch_teammates (SpecParse).                               *)
(***************************************************************************)
\* C9: every name of the roster returned by fetch_teammates(pid, name,
\* min_games) is non-empty after trimming, longer than 2 characters and not
\* purely numeric, and is the cleaned Teammate cell of a row of the table; when
\* a G column was found that row's G value coerces to a number strictly greater
\* than min_games; when there is no G column the roster holds one entry for
\* every row whose cleaned Teammate cell passes the name filter.
C9_RosterEntriesAreFiltered ==
    "main" \in f_pc =>
        /\ \A i \in DOMAIN teammates :
              /\ Len(Strip(teammates[i])) > 0
              /\ Len(teammates[i]) > 2
              /\ ~IsDigitStr(teammates[i])
              /\ html.kind = "table"
              /\ TeammateCol(html.df) # 0
              /\ \E r \in DOMAIN html.df.rows :
                    LET row == html.df.rows[r]
                    IN  /\ ~row[TeammateCol(html.df)].na
                        /\ CleanName(row[TeammateCol(html.df)].s) = teammates[i]
                        /\ GCol(html.df) # 0 =>
                              /\ ~ToNumeric(row[GCol(html.df)]).na
                              /\ ToNumeric(row[GCol(html.df)]).n > f_min_games
        /\ (html.kind = "table" /\ TeammateCol(html.df) # 0 /\ GCol(html.df) = 0) =>
              Len(teammates) =
                  Cardinality({r \in DOMAIN html.df.rows :
                      LET c == html.df.rows[r][TeammateCol(html.df)]
                      IN  /\ ~c.na
                          /\ Len(CleanName(c.s)) > 2
                          /\ ~IsDigitStr(CleanName(c.s))})

\* C9 witness: a table with a G column whose two rows both name "Love*", one
\* with G above min_games and one not: the roster is exactly ["Love"].
C9_Witness ==
    /\ "main" \in f_pc
    /\ html.kind = "table"
    /\ GCol(html.df) # 0
    /\ Len(html.df.rows) = 2
    /\ \A r \in DOMAIN html.df.rows : html.df.rows[r][1] = Cell(Love \o <<"*">>)
    /\ teammates = <<Love>>

\* C10: a roster returned by fetch_teammates (either file) never contains the
\* literal column-header echo "Teammate".
C10_RosterHasNoHeaderEcho ==
    /\ \A i \in DOMAIN teammates : teammates[i] # Teammate
    /\ \A i \in DOMAIN nna_teammates : nna_teammates[i] # Teammate

(***************************************************************************)
(* Claims about the intersection step (SpecIntersect).                     *)
(***************************************************************************)
\* C6 as stated: the common set equals R1 \cap R2 \cap R3 minus the excluded
\* token, equals the intersection of the three pairwise results, and is a
\* subset of every pairwise intersection.
C6_CommonEqualsPairwiseIntersection ==
    i_pc = "done" =>
        LET pw == PairwiseCommon(t1, t2, t3)
        IN  /\ \A x \in IntersectNames :
                  x \in common <=>
                      /\ \A t \in {t1, t2, t3} : \E i \in DOMAIN t : t[i] = x
                      /\ Lower(x) # SentinelLower
            /\ common = (pw[1] \cap pw[2]) \cap pw[3]
            /\ \A k \in 1..3 : common \subseteq pw[k]

\* C6 amended: the common set equals R1 \cap R2 \cap R3 minus the entries
\* whose lower-cased form is 'teammate', equals the intersection of the three
\* pairwise results minus those same entries, and is a subset of every
\* pairwise intersection; {A,B,C}, {B,C,D}, {C,D,E} gives {C}.  The pairwise
\* sets the code computes (when common is empty) are those pairwise results.
C6_CommonIsFilteredIntersection ==
    /\ CommonTeammates(<<Love, Irving, James>>, <<Irving, James, Nurkic>>,
                       <<James, Nurkic, NurkicAccent>>) = {James}
    /\ i_pc = "done" =>
          LET pw == PairwiseCommon(t1, t2, t3)
          IN  /\ \A x \in IntersectNames :
                    x \in common <=>
                        /\ \A t \in {t1, t2, t3} : \E i \in DOMAIN t : t[i] = x
                        /\ Lower(x) # SentinelLower
              /\ common = {x \in (pw[1] \cap pw[2]) \cap pw[3] :
                              Lower(x) # SentinelLower}
              /\ \A k \in 1..3 : common \subseteq pw[k]
              /\ pairwise # <<>> => (pairwise = pw /\ common = {})

\* C6 witness: three rosters that share only the header echo; the code found
\* common empty and computed the pairwise sets, each of which holds the echo.
C6_Witness ==
    /\ i_pc = "done"
    /\ common = {}
    /\ pairwise = <<{Teammate}, {Teammate}, {Teammate}>>

(***************************************************************************)
(* Claims about guess checking (SpecGuess).                                *)
(***************************************************************************)
\* C7: in every app a submitted guess is accepted if and only if its
\* normalized form equals the normalized form of some member of the answer
\* set (any member, not only the designated answer).
C7_GuessAcceptedIffNormalizedMember ==
    \A k \in g_pc :
        guess # <<>> =>
            (verdict[k] = "correct" <=>
                \E a \in g_common : normalize_name(a) = normalize_name(guess))

(***************************************************************************)
(* Claims about generate_computer_question (Spec).                         *)
(***************************************************************************)
Returned == pc = "done" /\ result.kind = "puzzle"

\* names that are in all three clue rosters and are not the header echo
CluesIntersection ==
    { x \in UNION {ToSet(clue_teammates_lists[i]) : i \in 1..3} :
          /\ \A i \in 1..3 :
                \E k \in DOMAIN clue_teammates_lists[i] : clue_teammates_lists[i][k] = x
          /\ Lower(x) # SentinelLower }

\* C1: for every puzzle returned by generate_computer_question,
\* guaranteed_answer is an element of all_answers.
C1_GuaranteedAnswerInAllAnswers ==
    Returned => result.guaranteed_answer \in result.all_answers

\* C2 as stated: for every returned puzzle, all_answers is exactly the
\* intersection of the three clue rosters (fetched with the same min_games)
\* with the sentinel entries removed.
C2_AllAnswersIsIntersection ==
    Returned => result.all_answers = CluesIntersection

\* C2 amended: for every returned puzzle, all_answers is the intersection of
\* the three clue rosters (fetched with the same min_games) with the sentinel
\* entries removed, plus the drawn target when no entry of that intersection
\* has the target's normalized name.
C2_AllAnswersIsIntersectionPlusTarget ==
    Returned =>
        /\ \A i \in 1..3 :
              clue_teammates_lists[i] = fetch_teammates(clue_html[i], min_games)
        /\ result.all_answers =
              CluesIntersection \cup
                  (IF \E x \in CluesIntersection :
                          normalize_name(x) = normalize_name(target_player)
                   THEN {} ELSE {target_player})

\* C2 witness: a returned puzzle whose three clue rosters share the header
\* echo and no spelling of the target, so the echo was removed and the target
\* added.
C2_Witness ==
    /\ Returned
    /\ \A i \in 1..3 : Teammate \in ToSet(clue_teammates_lists[i])
    /\ result.guaranteed_answer \notin CluesIntersection
    /\ result.guaranteed_answer \in result.all_answers
    /\ Cardinality(result.all_answers) > 1

\* C3: for every returned puzzle, the three clues are pairwise distinct names
\* and each clue is a member of the roster fetched for the candidate.
C3_CluesDistinctRosterMembers ==
    Returned =>
        /\ \A i, j \in 1..3 : i # j => result.clues[i] # result.clues[j]
        /\ \A i \in 1..3 : result.clues[i] \in ToSet(target_teammates)

\* C4: the call ends after starting at most max_trials trials, a successful
\* trial ends it at once, and it returns None exactly when all max_trials
\* trials were unsuccessful.
C4_NoneIffAllTrialsUnsuccessful ==
    /\ trials <= max_trials
    /\ result.kind = "puzzle" => pc = "done"
    /\ pc = "done" =>
          (result.kind = "none" <=>
              (trials = max_trials /\ result.kind # "puzzle"))

\* C5: no exception raised during a trial (candidate draw included) leaves
\* generate_computer_question: it always ends by returning a puzzle or None.
C5_NoExceptionPropagates ==
    pc = "done" => result.kind \in {"puzzle", "none"}

(***************************************************************************)
(* Claims about the answer sets (SpecSession).                             *)
(***************************************************************************)
\* C8: neither the common set stored in the session nor the all_answers of a
\* generated puzzle contains an entry whose normalized form equals the
\* normalized sentinel token "teammate".
C8_NoSentinelInAnswerSet ==
    /\ Has("common") =>
          \A c \in session_state["common"] :
              normalize_name(c) # normalize_name(SentinelLower)
    /\ result.kind = "puzzle" =>
          \A c \in result.all_answers :
              normalize_name(c) # normalize_name(SentinelLower)

(***************************************************************************)
(* Claims about search_player (SpecSearch).                                *)
(***************************************************************************)
\* C11: when the provider answers with a redirect to a player page,
\* search_player returns exactly one identity, whose pid is the key taken
\* from the redirect destination.
C11_RedirectGivesOneIdentity ==
    (s_pc = "done" /\ s_resp.kind = "ok" /\ HasPlayersPath(s_resp.url)) =>
        /\ Len(s_results) = 1
        /\ s_results[1].pid = PidOfUrl(s_resp.url)

\* C12: search_player always returns a sequence of identities: the empty
\* sequence when the provider call fails, and the empty sequence when the
\* results page has no player link (no match).
C12_SearchFailuresGiveEmpty ==
    s_pc = "done" =>
        /\ \A i \in DOMAIN s_results :
              DOMAIN s_results[i] = {"name", "pid", "url"}
        /\ s_resp.kind = "error" => s_results = <<>>
        /\ (/\ s_resp.kind = "ok"
            /\ ~HasPlayersPath(s_resp.url)
            /\ \/ ~s_resp.div
               \/ \A i \in DOMAIN s_resp.links :
                      ~HasPlayersPath(s_resp.links[i].href))
              => s_results = <<>>
        /\ (/\ s_resp.kind = "ok"
            /\ ~HasPlayersPath(s_resp.url)
            /\ s_resp.div)
              => Len(s_results) =
                    Cardinality({i \in DOMAIN s_resp.links :
                                    HasPlayersPath(s_resp.links[i].href)})

\* C12 witness: the provider call failed and search_player returned [], and
\* this is not the initial value of the result (the call has finished).
C12_Witness ==
    /\ s_pc = "done"
    /\ s_resp.kind = "error"
    /\ s_results = <<>>

(***************************************************************************)
(* Claims about normalize_name (SpecNormalize).                            *)
(***************************************************************************)
\* C13: normalize_name applied to its own result gives that result again, and
\* two names that differ only in the case of a letter, in an accent or in a
\* leading/trailing blank have the same normalized form; in particular
\* "Nurkic'" (accented), "nurkic" and "NURKIC " normalize to "nurkic".
C13_NormalizeIdempotentInsensitive ==
    /\ normalize_name(NurkicAccent) = Lower(Nurkic)
    /\ normalize_name(Lower(Nurkic)) = Lower(Nurkic)
    /\ normalize_name(<<"N","U","R","K","I","C"," ">>) = Lower(Nurkic)
    /\ n_pc = "done" =>
          /\ normalized.twice = normalized.once
          /\ normalized.variant = normalized.once

\* C13 witness: " C'" (blank, accented capital) and its spelling with a
\* lower-case letter both normalize to "c".
C13_Witness ==
    /\ n_pc = "done"
    /\ n_name = <<" ", "C'">>
    /\ n_variant = <<" ", "c'">>
    /\ normalized = [once |-> <<"c">>, twice |-> <<"c">>, variant |-> <<"c">>]

(***************************************************************************)
(* Claims about the trials of generate_computer_question (Spec).           *)
(***************************************************************************)
\* what a trial has established when it is past each of its four tests
TrialComplete ==
    /\ (pc \in {"fetch_target", "sample", "search_clues", "fetch_clues", "intersect"}
            \/ Returned)
          => target_info # NoIdentity
    /\ (pc \in {"sample", "search_clues", "fetch_clues", "intersect"} \/ Returned)
          => Len(target_teammates) >= 3
    /\ (pc \in {"fetch_clues", "intersect"} \/ Returned)
          => /\ Len(clue_search_results) = 3
             /\ \A i \in 1..3 : clue_search_results[i] # NoIdentity
    /\ (pc = "intersect" \/ Returned)
          => /\ Len(clue_teammates_lists) = 3
             /\ \A i \in 1..3 : clue_teammates_lists[i] # <<>>

\* a step that leaves a trial either passes its test or goes back to the loop
\* test without a result; only the last step of a trial returns a puzzle,
\* and when the budget of one trial is used up the next step returns None
TrialStep ==
    /\ (pc # "loop" /\ pc # "done" /\ pc' = "loop")
          => (result' = result /\ trials' = trials)
    /\ (result.kind # "puzzle" /\ result'.kind = "puzzle") => pc = "intersect"
    /\ (pc = "loop" /\ max_trials = 1 /\ trials = 1) => result'.kind = "none"

\* C14: a trial returns a puzzle only if in that trial the candidate resolved
\* to an identity, its roster had at least 3 entries, the three clues resolved
\* and the three clue rosters were non-empty; a trial that fails one of the
\* tests is abandoned without a puzzle, so that with max_trials = 1 an
\* abandoned trial is followed by the result None.
C14_PuzzleOnlyFromCompleteTrial == []TrialComplete /\ [][TrialStep]_vars

\* C14 witness: the first trial was abandoned and the second returned a puzzle
\* from a candidate roster of exactly three entries.
C14_Witness ==
    /\ Returned
    /\ trials = 2
    /\ Len(target_teammates) = 3
    /\ \A i \in 1..3 : clue_teammates_lists[i] # <<>>

(***************************************************************************)
(* Claims about computer mode (SpecComputer).                              *)
(***************************************************************************)
\* C15: while generate_computer_question runs for computer mode, its
\* min_games is 50 when the easy option is selected and 0 when the hard
\* option is selected.
C15_DifficultySetsMinGames ==
    c_pc = "generating" =>
        /\ difficulty = EasyOption => min_games = EasyMinGames
        /\ difficulty = HardOption => min_games = HardMinGames

(***************************************************************************)
(* Claims about the player-mode session (SpecSession).                     *)
(***************************************************************************)
\* a started game has an answer out of a non-empty common set and three
\* selected players
SessionConsistent ==
    (Flag("game_started") /\ Has("answer")) =>
        /\ Has("common")
        /\ session_state["common"] # {}
        /\ session_state["answer"] \in session_state["common"]
        /\ Has("selected_players")
        /\ Len(session_state["selected_players"]) = 3

\* key k is written, or written with another value, by the step
Written(k) ==
    /\ k \in DOMAIN session_state'
    /\ k \notin DOMAIN session_state \/ session_state'[k] # session_state[k]

\* a step that writes the answer, the common set or the selected players, or
\* starts the game, writes them together: the players are selections out of
\* choices1..3 and the common set is the intersection of the three rosters
\* fetched in that step; a confirm that finds no common teammate writes nothing
ConfirmStep ==
    /\ (\/ Written("answer") \/ Written("common") \/ Written("selected_players")
        \/ (Written("game_started") /\ session_state'["game_started"]))
          => /\ Flag("search_completed")
             /\ Flag("game_started")'
             /\ \E i1 \in DOMAIN session_state["choices1"],
                   i2 \in DOMAIN session_state["choices2"],
                   i3 \in DOMAIN session_state["choices3"] :
                      session_state'["selected_players"] =
                          << session_state["choices1"][i1].name,
                             session_state["choices2"][i2].name,
                             session_state["choices3"][i3].name >>
             /\ \E r1 \in AppRosters, r2 \in AppRosters, r3 \in AppRosters :
                      session_state'["common"] = AppCommon(r1, r2, r3)
             /\ session_state'["common"] # {}
             /\ session_state'["answer"] \in session_state'["common"]
    /\ shown'.kind = "no_common_teammate" => session_state' = session_state

\* C16: in player mode every session state with game_started true and an
\* answer stored has a non-empty stored common set containing the answer and
\* three selected players, which were written together by the confirm that
\* fetched the rosters behind that common set; a confirm whose intersection
\* is empty leaves the session unchanged.
C16_StartedGameIsConsistent == []SessionConsistent /\ [][ConfirmStep]_vars

\* C16 witness: a game is running and a later confirm found no common
\* teammate: the answer, common set and selected players are still stored.
C16_Witness ==
    /\ Flag("game_started") /\ Has("answer")
    /\ shown.kind = "no_common_teammate"
    /\ session_state["answer"] \in session_state["common"]

====
